---- MODULE Spec2Model ----
(***************************************************************************)
(* Model of fwd_msg_update_sheet.py: the field extractor (extract_fields)  *)
(* and the Telegram NewMessage handler that routes a message to            *)
(* categories, appends a row to each category's Google Sheet and forwards  *)
(* the message to each category's target groups.                           *)
(*                                                                         *)
(* Python strings are modelled as sequences of one-character strings, so   *)
(* that lower(), the `in` substring test, splitlines(), strip() and the    *)
(* regular expressions are computed character by character.                *)
(***************************************************************************)
EXTENDS Integers, Sequences, FiniteSets, TLC

VARIABLES
  text, lines, li, fields, ret, epc,
  gclient, CATEGORIES, today, msg, pc, ci, ph, ti, trace, matched

extractVars == <<text, lines, li, fields, ret, epc>>
handlerVars == <<gclient, CATEGORIES, today, msg, pc, ci, ph, ti, trace, matched>>
vars == <<text, lines, li, fields, ret, epc,
          gclient, CATEGORIES, today, msg, pc, ci, ph, ti, trace, matched>>

(***************************************************************************)
(* Bounds of the model.                                                    *)
(***************************************************************************)
\* longest text given to extract_fields, in lines
MaxLines == 2
\* most collaborator calls (append_row, send_message) that raise in one run
MaxFailures == 2

None == "None"

(***************************************************************************)
(* Strings                                                                 *)
(***************************************************************************)
UpperToLower ==
  ("A" :> "a") @@ ("B" :> "b") @@ ("C" :> "c") @@ ("D" :> "d") @@ ("E" :> "e") @@
  ("F" :> "f") @@ ("G" :> "g") @@ ("H" :> "h") @@ ("I" :> "i") @@ ("J" :> "j") @@
  ("K" :> "k") @@ ("L" :> "l") @@ ("M" :> "m") @@ ("N" :> "n") @@ ("O" :> "o") @@
  ("P" :> "p") @@ ("Q" :> "q") @@ ("R" :> "r") @@ ("S" :> "s") @@ ("T" :> "t") @@
  ("U" :> "u") @@ ("V" :> "v") @@ ("W" :> "w") @@ ("X" :> "x") @@ ("Y" :> "y") @@
  ("Z" :> "z")

\* one character of str.lower(), and of a comparison under re.IGNORECASE
LowerChar(c) == IF c \in DOMAIN UpperToLower THEN UpperToLower[c] ELSE c

\* str.lower()
lower(s) == [i \in 1..Len(s) |-> LowerChar(s[i])]

\* the characters \s matches and strip() removes
IsSpace(c) == c \in {" ", "\t", "\n", "\r", "\f"}

\* `sub in s` for strings
Contains(s, sub) ==
  \E i \in 0..(Len(s) - Len(sub)) : \A j \in 1..Len(sub) : s[i + j] = sub[j]

RECURSIVE lstrip(_)
lstrip(s) ==
  IF s # <<>> /\ IsSpace(Head(s)) THEN lstrip(Tail(s)) ELSE s

RECURSIVE rstrip(_)
rstrip(s) ==
  IF s # <<>> /\ IsSpace(s[Len(s)]) THEN rstrip(SubSeq(s, 1, Len(s) - 1)) ELSE s

\* str.strip()
strip(s) == rstrip(lstrip(s))

\* index of the first line break of s, 0 when there is none
FirstBreak(s) ==
  IF \E i \in 1..Len(s) : s[i] = "\n"
  THEN CHOOSE i \in 1..Len(s) : s[i] = "\n" /\ \A j \in 1..(i - 1) : s[j] # "\n"
  ELSE 0

\* str.splitlines(): no empty last line after a trailing line break
RECURSIVE splitlines(_)
splitlines(s) ==
  IF s = <<>> THEN <<>>
  ELSE LET b == FirstBreak(s) IN
       IF b = 0 THEN <<s>>
       ELSE <<SubSeq(s, 1, b - 1)>> \o splitlines(SubSeq(s, b + 1, Len(s)))

(***************************************************************************)
(* Regular expressions: the subset the field patterns use.                 *)
(* A pattern is a sequence of elements, matched with Python's             *)
(* backtracking order (greedy repetitions give characters back one by      *)
(* one).  Every field pattern ends with its one capturing group (.+).      *)
(***************************************************************************)
WS == [t |-> "ws"]
ANY == [t |-> "any"]
CAP == [t |-> "cap"]
Opt(c) == [t |-> "opt", c |-> c]
Lit(s) == [i \in 1..Len(s) |-> [t |-> "lit", c |-> s[i]]]

\* length of the run of whitespace of line that starts at position j
RECURSIVE SpaceRun(_, _)
SpaceRun(line, j) ==
  IF j <= Len(line) /\ IsSpace(line[j]) THEN 1 + SpaceRun(line, j + 1) ELSE 0

\* MatchAt(pat, line, k, j): match elements k.. of pat against line from
\* position j; the position where group 1 starts, or 0 when there is no match
RECURSIVE MatchAt(_, _, _, _)
RECURSIVE Greedy(_, _, _, _, _)
MatchAt(pat, line, k, j) ==
  IF k > Len(pat) THEN 0
  ELSE LET e == pat[k] IN
    CASE e.t = "lit" ->
           IF j <= Len(line) /\ LowerChar(line[j]) = LowerChar(e.c)
           THEN MatchAt(pat, line, k + 1, j + 1) ELSE 0
      [] e.t = "ws" -> Greedy(pat, line, k, j, SpaceRun(line, j))
      [] e.t = "any" -> Greedy(pat, line, k, j, Len(line) - j + 1)
      [] e.t = "opt" ->
           LET with == IF j <= Len(line) /\ LowerChar(line[j]) = LowerChar(e.c)
                       THEN MatchAt(pat, line, k + 1, j + 1) ELSE 0
           IN IF with # 0 THEN with ELSE MatchAt(pat, line, k + 1, j)
      [] e.t = "cap" -> IF j <= Len(line) THEN j ELSE 0

\* a greedy repetition at element k that can take up to n characters
Greedy(pat, line, k, j, n) ==
  LET r == MatchAt(pat, line, k + 1, j + n) IN
  IF r # 0 THEN r
  ELSE IF n = 0 THEN 0 ELSE Greedy(pat, line, k, j, n - 1)

\* re.search(pattern, line, re.IGNORECASE): the leftmost match; the start of
\* group 1 (which runs to the end of the line), or 0 when nothing matches
RECURSIVE SearchFrom(_, _, _)
SearchFrom(pat, line, s) ==
  IF s > Len(line) THEN 0
  ELSE LET r == MatchAt(pat, line, 1, s) IN
       IF r # 0 THEN r ELSE SearchFrom(pat, line, s + 1)

re_search(pat, line) == SearchFrom(pat, line, 1)

\* match.group(1)
group1(line, m) == SubSeq(line, m, Len(line))

(***************************************************************************)
(* extract_fields                                                          *)
(***************************************************************************)
MISSING == <<"M","I","S","S","I","N","G">>

\* the keys of `fields`, in insertion order
FieldOrder ==
  <<"Branch", "Salesperson", "Customer Name", "Product Description",
    "Item Group", "Remarks", "Exchange", "MRP", "DP",
    "Last Purchase Price (PP)", "Negotiated Price (NP)", "SRP Price",
    "Selling Price (SP)">>

FieldNames == {FieldOrder[i] : i \in 1..Len(FieldOrder)}

\* a faulty variant of DefaultFields: the entry of DP starts empty
DefaultFieldsNoDP == [f \in FieldNames |-> IF f = "DP" THEN <<>> ELSE MISSING]

\* the initial value of `fields`
DefaultFields == [f \in FieldNames |-> MISSING]

patterns ==
  [f \in FieldNames |->
    CASE f = "Branch" -> Lit(<<"B","r","a","n","c","h">>) \o <<WS>> \o Lit(<<":">>) \o <<WS>> \o <<CAP>>
      [] f = "Salesperson" -> Lit(<<"S","a","l","e","s","p","e","r","s","o","n">>) \o <<WS>> \o Lit(<<":">>) \o <<WS>> \o <<CAP>>
      [] f = "Customer Name" -> Lit(<<"C","u","s","t","o","m","e","r">>) \o <<WS>> \o Lit(<<"N","a","m","e">>) \o <<WS>> \o Lit(<<":">>) \o <<WS>> \o <<CAP>>
      [] f = "Product Description" -> Lit(<<"P","r","o","d","u","c","t">>) \o <<WS>> \o Lit(<<"D","e","s","c","r","i","p","t","i","o","n">>) \o <<WS>> \o Lit(<<":">>) \o <<WS>> \o <<CAP>>
      [] f = "Item Group" -> Lit(<<"I","t","e","m">>) \o <<WS>> \o Lit(<<"G","r","o","u","p">>) \o <<WS>> \o Lit(<<":">>) \o <<WS>> \o <<CAP>>
      [] f = "Remarks" -> Lit(<<"R","e","m","a","r","k","s">>) \o <<WS>> \o Lit(<<":">>) \o <<WS>> \o <<CAP>>
      [] f = "Exchange" -> Lit(<<"E","x","c","h","a","n","g","e">>) \o <<WS>> \o Lit(<<":">>) \o <<WS>> \o <<CAP>>
      [] f = "MRP" -> Lit(<<"M","R","P">>) \o <<WS>> \o Lit(<<":">>) \o <<WS>> \o <<CAP>>
      [] f = "DP" -> Lit(<<"D","P">>) \o <<WS>> \o Lit(<<":">>) \o <<WS>> \o <<CAP>>
      [] f = "Last Purchase Price (PP)" ->
           Lit(<<"L","a","s","t">>) \o <<WS>> \o Lit(<<"P","u","r","c","h","a","s","e">>) \o <<WS>> \o Lit(<<"P","r","i","c","e">>) \o <<WS>> \o Lit(<<"(">>) \o <<ANY>> \o Lit(<<"P","P">>) \o <<ANY>> \o Lit(<<")">>) \o <<WS>> \o Lit(<<":">>) \o <<WS>> \o <<CAP>>
      [] f = "Negotiated Price (NP)" ->
           Lit(<<"N","e","g","o","t","i","a","t","e","d">>) \o <<WS>> \o Lit(<<"P","r","i","c","e">>) \o <<WS>> \o Lit(<<"(">>) \o <<ANY>> \o Lit(<<"N","P">>) \o <<ANY>> \o Lit(<<")">>) \o <<WS>> \o Lit(<<":">>) \o <<WS>> \o <<CAP>>
      [] f = "SRP Price" -> Lit(<<"S","R","P">>) \o <<WS>> \o Lit(<<"P","r","i","c","e">>) \o <<WS>> \o Lit(<<":">>) \o <<WS>> \o <<CAP>>
      [] f = "Selling Price (SP)" ->
           Lit(<<"S","e","l","l","i","n","g">>) \o <<WS>> \o Lit(<<"P","r","i","c","e">>) \o <<WS>> \o Lit(<<"(">>) \o <<ANY>> \o Lit(<<"S","P">>) \o <<ANY>> \o <<Opt(")")>> \o <<WS>> \o Lit(<<":">>) \o <<WS>> \o <<CAP>>]

\* the body of the loop over the lines: every pattern is tried on the line,
\* and a match assigns the field
ScanLine(fs, line) ==
  [f \in FieldNames |->
    LET m == re_search(patterns[f], line) IN
    IF m # 0 THEN strip(group1(line, m)) ELSE fs[f]]

\* list(fields.values())
Values(fs) == [i \in 1..Len(FieldOrder) |-> fs[FieldOrder[i]]]

RECURSIVE ScanLines(_, _)
ScanLines(fs, ls) ==
  IF ls = <<>> THEN fs ELSE ScanLines(ScanLine(fs, Head(ls)), Tail(ls))

\* extract_fields(text), as the handler calls it
extract_fields(t) == Values(ScanLines(DefaultFields, splitlines(t)))

(***************************************************************************)
(* Configuration: CATEGORIES and gclient                                   *)
(***************************************************************************)
\* iteration order of CATEGORIES.items()
CategoryOrder == <<"mobile", "laptop", "accessories">>

CategoryNames == {CategoryOrder[i] : i \in 1..Len(CategoryOrder)}

keywords_mobile ==
  << <<"i","t","e","m"," ","g","r","o","u","p"," ",":"," ","m","o","b","i","l","e"," ","p","h","o","n","e">>, <<"i","t","e","m"," ","g","r","o","u","p"," ",":"," ","n","e","c","k","b","a","n","d">>,
     <<"i","t","e","m"," ","g","r","o","u","p"," ",":"," ","t","r","i","m","m","e","r">>, <<"h","a","i","r"," ","d","r","y","e","r">>, <<"h","a","i","r"," ","s","t","r","a","i","g","h","t","n","e","r">>,
     <<"i","t","e","m"," ","g","r","o","u","p"," ",":"," ","e","a","r","b","u","d","s">>, <<"i","t","e","m"," ","g","r","o","u","p"," ",":"," ","a","d","a","p","t","o","r","s">>,
     <<"i","t","e","m"," ","g","r","o","u","p"," ",":"," ","a","u","d","i","o"," ","a","c","c","e","s","s","o","r","i","e","s">>, <<"i","t","e","m"," ","g","r","o","u","p"," ",":"," ","p","o","w","e","r"," ","b","a","n","k">>,
     <<"i","t","e","m"," ","g","r","o","u","p"," ",":"," ","h","e","a","d","p","h","o","n","e">>, <<"b","o","a","t">>, <<"n","o","i","s","e">>, <<"h","a","p","i","p","o","l","a">>,
     <<"s","t","u","f","c","o","o","l">>, <<"s","t","u","f","f","c","o","o","l">> >>

keywords_laptop ==
  << <<"i","t","e","m"," ","g","r","o","u","p"," ",":"," ","l","a","p","t","o","p">>, <<"k","e","y","b","o","a","r","d">>, <<"m","o","u","s","e">>,
     <<"i","t","e","m"," ","g","r","o","u","p"," ",":"," ","m","o","n","i","t","o","r">>, <<"c","o","m","p","u","t","e","r"," ","a","c","c","e","s","s","o","r","i","e","s">> >>

keywords_accessories ==
  << <<"i","t","e","m"," ","g","r","o","u","p"," ",":"," ","n","e","c","k","b","a","n","d">>, <<"i","t","e","m"," ","g","r","o","u","p"," ",":"," ","t","r","i","m","m","e","r">>, <<"h","a","i","r"," ","d","r","y","e","r">>,
     <<"h","a","i","r"," ","s","t","r","a","i","g","h","t","n","e","r">>, <<"i","t","e","m"," ","g","r","o","u","p"," ",":"," ","e","a","r","b","u","d","s">>,
     <<"i","t","e","m"," ","g","r","o","u","p"," ",":"," ","a","d","a","p","t","o","r","s">>, <<"i","t","e","m"," ","g","r","o","u","p"," ",":"," ","a","u","d","i","o"," ","a","c","c","e","s","s","o","r","i","e","s">>,
     <<"i","t","e","m"," ","g","r","o","u","p"," ",":"," ","p","o","w","e","r"," ","b","a","n","k">>, <<"i","t","e","m"," ","g","r","o","u","p"," ",":"," ","h","e","a","d","p","h","o","n","e">>, <<"b","o","a","t">>,
     <<"n","o","i","s","e">>, <<"h","a","p","i","p","o","l","a">>, <<"s","t","u","f","c","o","o","l">>, <<"s","t","u","f","f","c","o","o","l">> >>

KeywordsOf(c) ==
  CASE c = "mobile" -> keywords_mobile
    [] c = "laptop" -> keywords_laptop
    [] c = "accessories" -> keywords_accessories

\* The environment the process starts in: whether the service-account
\* credentials load (gclient is a client, or None), SHEET_ID_<CATEGORY>
\* (a key, "" or unset) and the parsed TARGET_GROUPS_<CATEGORY> lists.
SheetEnvs ==
  { [mobile |-> "sheet-M", laptop |-> "sheet-L", accessories |-> "sheet-A"],
    [mobile |-> "sheet-M", laptop |-> None, accessories |-> ""] }

TargetEnvs ==
  { [mobile |-> <<-1001, -1002>>, laptop |-> <<-1002>>, accessories |-> <<-1001>>],
    [mobile |-> <<>>, laptop |-> <<-1003, -1003>>, accessories |-> <<>>] }

GClients == {"gspread.Client", None}

\* the CATEGORIES dictionary built at import time
Categories(sheets, targets) ==
  [c \in CategoryNames |->
    [keywords |-> KeywordsOf(c), sheet_id |-> sheets[c], targets |-> targets[c]]]

\* truth value of an optional string
Truthy(x) == x # None /\ x # ""

\* datetime.now(ist).strftime('%Y-%m-%d') on the successive days of a run
Dates == << <<"2","0","2","6","-","1","1","-","0","3">>, <<"2","0","2","6","-","1","1","-","0","4">> >>

(***************************************************************************)
(* handler                                                                 *)
(***************************************************************************)
\* the two NewMessage events whose handler coroutines may interleave
Handlers == {1, 2}

\* event.raw_text of the messages that arrive
Inbox ==
  { <<"B","r","a","n","c","h"," ",":"," ","E","a","s","t">>,
    <<"I","t","e","m"," ","G","r","o","u","p"," ",":"," ","M","o","b","i","l","e"," ","P","h","o","n","e","\n","M","R","P"," ",":"," ","9","9","9","9">>,
    <<"B","O","A","T">>,
    <<"M","o","u","s","e","\n","h","a","i","r"," ","d","r","y","e","r">> }

\* errors of the collaborators (subclasses of Exception)
SheetErrors == {"APIError"}
ForwardErrors == {"RPCError"}

\* a faulty variant of RawText: one slot shared by all runs of the handler
RawTextShared(m, h) == m[1]

\* msg = event.raw_text: local to each run of the handler
RawText(m, h) == m[h]

\* a faulty variant of KeywordMatch: the comparison without lower()
KeywordMatchCaseSensitive(keywords, m) ==
  \E k \in 1..Len(keywords) : Contains(m, keywords[k])

\* any(keyword.lower() in msg.lower() for keyword in config["keywords"])
KeywordMatch(keywords, m) ==
  LET lowered == lower(m) IN
  \E k \in 1..Len(keywords) : Contains(lowered, lower(keywords[k]))

\* a faulty variant of SheetGuard: the sheet id is not tested
SheetGuardAnySheet(g, config) == g # None

\* if gclient and config["sheet_id"]
SheetGuard(g, config) == g # None /\ Truthy(config.sheet_id)

\* a faulty variant of SheetExcept: no except clause
SheetExceptNothing(e) == FALSE

\* `except Exception` around the sheet update: the error is logged, not raised
SheetExcept(e) == e \in SheetErrors

\* a faulty variant of ForwardExcept: no except clause
ForwardExceptNothing(e) == FALSE

\* `except Exception` around send_message
ForwardExcept(e) == e \in ForwardErrors

\* a faulty variant of ForwardTargets: the loop stops after the first target
ForwardTargetsFirst(config) ==
  IF config.targets = <<>> THEN <<>> ELSE <<config.targets[1]>>

\* for tg in config["targets"]
ForwardTargets(config) == config.targets

\* a faulty variant of CategorySteps: the forwards before the sheet update
CategoryStepsSwapped == <<"forward", "sheet">>

\* the statements of the body of `if any(...)`, in program order
CategorySteps == <<"sheet", "forward">>

\* row = [current_ist_date] + extract_fields(msg); worksheet.append_row(row)
AppendCall(c, config, row, result) ==
  [op |-> "append_row", category |-> c, sheet_id |-> config.sheet_id,
   row |-> row, result |-> result]

\* await client.send_message(tg, msg), not yet completed
SendCall(c, tg, m) ==
  [op |-> "send_message", category |-> c, tg |-> tg, text |-> m,
   result |-> "pending"]

\* Advance(st, m): run the handler from position st (category index ci,
\* statement ph of the category body with ph = 0 the keyword test, target
\* index ti) up to its next await or its end; the set of states it can
\* stop in, one for every way the appends on the way succeed or raise.
\* st.pc is "await" at a pending send_message, "done" when the handler
\* returned and "raised" when an error left it.
RECURSIVE Advance(_, _)
Advance(st, m) ==
  IF st.ci > Len(CategoryOrder) THEN {[st EXCEPT !.pc = "done"]}
  ELSE
    LET c == CategoryOrder[st.ci]
        config == CATEGORIES[c]
    IN
    IF st.ph = 0 THEN
      IF KeywordMatch(config.keywords, m)
      THEN Advance([st EXCEPT !.ph = 1, !.ti = 1, !.matched = Append(@, c)], m)
      ELSE Advance([st EXCEPT !.ci = @ + 1], m)
    ELSE IF st.ph > Len(CategorySteps) THEN
      Advance([st EXCEPT !.ci = @ + 1, !.ph = 0], m)
    ELSE IF CategorySteps[st.ph] = "sheet" THEN
      IF SheetGuard(gclient, config) THEN
        LET row == <<Dates[today]>> \o extract_fields(m)
            after(result) ==
              LET tr == Append(st.trace, AppendCall(c, config, row, result)) IN
              IF result = "ok" \/ SheetExcept(result)
              THEN Advance([st EXCEPT !.ph = @ + 1, !.ti = 1, !.trace = tr], m)
              ELSE {[st EXCEPT !.pc = "raised", !.trace = tr]}
        IN UNION {after(result) : result \in {"ok"} \cup SheetErrors}
      ELSE Advance([st EXCEPT !.ph = @ + 1, !.ti = 1], m)
    ELSE
      IF st.ti > Len(ForwardTargets(config))
      THEN Advance([st EXCEPT !.ph = @ + 1, !.ti = 1], m)
      ELSE {[st EXCEPT !.pc = "await",
               !.trace = Append(@, SendCall(c, ForwardTargets(config)[st.ti], m))]}

\* the handler state of h as one record, and back
StateOf(h) ==
  [pc |-> pc[h], ci |-> ci[h], ph |-> ph[h], ti |-> ti[h],
   trace |-> trace[h], matched |-> matched[h]]

Install(h, st) ==
  /\ pc' = [pc EXCEPT ![h] = st.pc]
  /\ ci' = [ci EXCEPT ![h] = st.ci]
  /\ ph' = [ph EXCEPT ![h] = st.ph]
  /\ ti' = [ti EXCEPT ![h] = st.ti]
  /\ trace' = [trace EXCEPT ![h] = st.trace]
  /\ matched' = [matched EXCEPT ![h] = st.matched]

\* collaborator calls of a trace that raised
Raised(tr) ==
  Cardinality({i \in 1..Len(tr) : tr[i].result \notin {"ok", "pending"}})

RECURSIVE SumRaised(_, _)
SumRaised(trs, hs) ==
  IF hs = {} THEN 0
  ELSE LET h == CHOOSE x \in hs : TRUE IN
       Raised(trs[h]) + SumRaised(trs, hs \ {h})

\* failures stay within the budget of the run
WithinBudget(h, st) ==
  SumRaised([trace EXCEPT ![h] = st.trace], Handlers) <= MaxFailures

\* A NewMessage event is dispatched: the handler runs to its first await.
HandlerStart(h) ==
  /\ pc[h] = "idle"
  /\ \E st \in Advance([StateOf(h) EXCEPT !.ci = 1, !.ph = 0, !.ti = 1],
                       RawText(msg, h)) :
       /\ WithinBudget(h, st)
       /\ Install(h, st)
  /\ UNCHANGED <<gclient, CATEGORIES, today, msg>>
  /\ UNCHANGED extractVars

\* The pending send_message completes or raises; the handler runs on to its
\* next await.
HandlerResume(h) ==
  /\ pc[h] = "await"
  /\ \E result \in {"ok"} \cup ForwardErrors :
       LET st0 == [StateOf(h) EXCEPT !.trace[Len(trace[h])].result = result] IN
       \E st \in IF result = "ok" \/ ForwardExcept(result)
                 THEN Advance([st0 EXCEPT !.ti = @ + 1], RawText(msg, h))
                 ELSE {[st0 EXCEPT !.pc = "raised"]} :
         /\ WithinBudget(h, st)
         /\ Install(h, st)
  /\ UNCHANGED <<gclient, CATEGORIES, today, msg>>
  /\ UNCHANGED extractVars

\* The date in Asia/Kolkata changes.
Midnight ==
  /\ today < Len(Dates)
  /\ today' = today + 1
  /\ UNCHANGED <<gclient, CATEGORIES, msg, pc, ci, ph, ti, trace, matched>>
  /\ UNCHANGED extractVars

NoExtraction ==
  /\ text = <<>>
  /\ lines = <<>>
  /\ li = 0
  /\ fields = <<>>
  /\ ret = <<>>
  /\ epc = "off"

Init ==
  /\ gclient \in GClients
  /\ \E sheets \in SheetEnvs, targets \in TargetEnvs :
       CATEGORIES = Categories(sheets, targets)
  /\ today = 1
  /\ msg \in [Handlers -> Inbox]
  /\ pc = [h \in Handlers |-> "idle"]
  /\ ci = [h \in Handlers |-> 1]
  /\ ph = [h \in Handlers |-> 0]
  /\ ti = [h \in Handlers |-> 1]
  /\ trace = [h \in Handlers |-> <<>>]
  /\ matched = [h \in Handlers |-> <<>>]
  /\ NoExtraction

Next ==
  \/ \E h \in Handlers : HandlerStart(h)
  \/ \E h \in Handlers : HandlerResume(h)
  \/ Midnight

Spec == Init /\ [][Next]_vars

(***************************************************************************)
(* extract_fields, statement by statement, on the texts of the pool        *)
(***************************************************************************)
LinePool ==
  { <<"B","r","a","n","c","h"," ",":"," ","E","a","s","t">>,
    <<"B","R","A","N","C","H",":","W","e","s","t"," ">>,
    <<"S","e","l","l","i","n","g"," ","P","r","i","c","e"," ",":"," ","1","0","0">>,
    <<"S","e","l","l","i","n","g"," ","P","r","i","c","e"," ","(","S","P",")"," ",":"," ","9","0">>,
    <<"M","R","P"," ",":"," ","M","I","S","S","I","N","G">>,
    <<"h","e","l","l","o"," ","b","o","a","t">>,
    <<"I","t","e","m"," ","G","r","o","u","p"," ",":"," ","M","o","b","i","l","e"," ","P","h","o","n","e">>,
    <<"L","a","s","t"," ","P","u","r","c","h","a","s","e"," ","P","r","i","c","e"," ","(","P","P",")"," ",":"," ","5">> }

RECURSIVE Join(_)
Join(ls) ==
  IF ls = <<>> THEN <<>>
  ELSE IF Len(ls) = 1 THEN ls[1]
  ELSE ls[1] \o <<"\n">> \o Join(Tail(ls))

Texts ==
  {Join(ls) : ls \in UNION {[1..n -> LinePool] : n \in 0..MaxLines}}

\* fields = {...}; the loop over text.splitlines() starts
ExtractCall ==
  /\ epc = "call"
  /\ fields' = DefaultFields
  /\ lines' = splitlines(text)
  /\ li' = 1
  /\ epc' = "loop"
  /\ UNCHANGED <<text, ret>>
  /\ UNCHANGED handlerVars

\* one iteration of `for line in text.splitlines()`
ExtractLine ==
  /\ epc = "loop"
  /\ li <= Len(lines)
  /\ fields' = ScanLine(fields, lines[li])
  /\ li' = li + 1
  /\ UNCHANGED <<text, lines, ret, epc>>
  /\ UNCHANGED handlerVars

\* return list(fields.values())
ExtractReturn ==
  /\ epc = "loop"
  /\ li > Len(lines)
  /\ ret' = Values(fields)
  /\ epc' = "returned"
  /\ UNCHANGED <<text, lines, li, fields>>
  /\ UNCHANGED handlerVars

InitExtract ==
  /\ text \in Texts
  /\ lines = <<>>
  /\ li = 0
  /\ fields = <<>>
  /\ ret = <<>>
  /\ epc = "call"
  /\ gclient = None
  /\ CATEGORIES = Categories([c \in CategoryNames |-> None],
                             [c \in CategoryNames |-> <<>>])
  /\ today = 1
  /\ msg = [h \in Handlers |-> <<>>]
  /\ pc = [h \in Handlers |-> "done"]
  /\ ci = [h \in Handlers |-> 1]
  /\ ph = [h \in Handlers |-> 0]
  /\ ti = [h \in Handlers |-> 1]
  /\ trace = [h \in Handlers |-> <<>>]
  /\ matched = [h \in Handlers |-> <<>>]

NextExtract == ExtractCall \/ ExtractLine \/ ExtractReturn

SpecExtract == InitExtract /\ [][NextExtract]_vars

(***************************************************************************)
(* Vocabulary of the properties                                            *)
(***************************************************************************)
\* kw occurs in m as a substring, letter case ignored
OccursIn(kw, m) ==
  \E i \in 0..(Len(m) - Len(kw)) :
    \A j \in 1..Len(kw) : LowerChar(m[i + j]) = LowerChar(kw[j])

\* the categories with a keyword that occurs in message m
ExpectedCategories ==
  [m \in Inbox |->
    {c \in CategoryNames :
       \E k \in 1..Len(KeywordsOf(c)) : OccursIn(KeywordsOf(c)[k], m)}]

\* the field values of the messages of the inbox
ExtractedOf == [m \in Inbox |-> extract_fields(m)]

Range(s) == {s[i] : i \in 1..Len(s)}

Finished(h) == pc[h] \in {"done", "raised"}

IsAppend(e) == e.op = "append_row"
IsSend(e) == e.op = "send_message"

\* the calls of trace tr made for category c
AppendsFor(tr, c) == SelectSeq(tr, LAMBDA e : IsAppend(e) /\ e.category = c)
SendsFor(tr, c) == SelectSeq(tr, LAMBDA e : IsSend(e) /\ e.category = c)

\* the destinations of a sequence of send_message calls
TargetsOf(sends) == [i \in 1..Len(sends) |-> sends[i].tg]

\* how often d occurs in the list s
Occurrences(s, d) == Cardinality({i \in 1..Len(s) : s[i] = d})

RECURSIVE SumOver(_, _, _)
SumOver(cs, tgt, d) ==
  IF cs = <<>> THEN 0
  ELSE Occurrences(tgt[Head(cs)].targets, d) + SumOver(Tail(cs), tgt, d)

Destinations == UNION {Range(CATEGORIES[c].targets) : c \in CategoryNames}

\* every append and every forward the handler owes message h was attempted
FullyDispatched(h) ==
  \A c \in Range(matched[h]) :
    /\ (gclient # None /\ Truthy(CATEGORIES[c].sheet_id))
         => Len(AppendsFor(trace[h], c)) = 1
    /\ TargetsOf(SendsFor(trace[h], c)) = CATEGORIES[c].targets

\* a call without its outcome and without the date of its row
Attempt(e) ==
  IF IsAppend(e)
  THEN [op |-> e.op, category |-> e.category, sheet_id |-> e.sheet_id,
        values |-> Tail(e.row)]
  ELSE [op |-> e.op, category |-> e.category, tg |-> e.tg, text |-> e.text]

Attempts(tr) == [i \in 1..Len(tr) |-> Attempt(tr[i])]

\* the attempts the handler makes for message m when no other message is
\* in flight: category by category, the append and then the forwards
RECURSIVE AloneFrom(_, _)
AloneFrom(m, k) ==
  IF k > Len(CategoryOrder) THEN <<>>
  ELSE
    LET c == CategoryOrder[k]
        config == CATEGORIES[c]
        append ==
          IF gclient # None /\ Truthy(config.sheet_id)
          THEN <<[op |-> "append_row", category |-> c,
                  sheet_id |-> config.sheet_id, values |-> ExtractedOf[m]]>>
          ELSE <<>>
        sends ==
          [i \in 1..Len(config.targets) |->
            [op |-> "send_message", category |-> c, tg |-> config.targets[i],
             text |-> m]]
    IN (IF c \in ExpectedCategories[m] THEN append \o sends ELSE <<>>)
         \o AloneFrom(m, k + 1)

AloneAttempts(m) == AloneFrom(m, 1)

IsPrefix(s, t) == Len(s) <= Len(t) /\ s = SubSeq(t, 1, Len(s))

\* the lines of the text under extraction that match the pattern of field f
MatchingLines(f) ==
  {i \in 1..Len(lines) : re_search(patterns[f], lines[i]) # 0}

\* the trimmed value line i gives field f
Captured(f, i) ==
  strip(group1(lines[i], re_search(patterns[f], lines[i])))

Min(S) == CHOOSE x \in S : \A y \in S : x <= y
Max(S) == CHOOSE x \in S : \A y \in S : x >= y

(***************************************************************************)
(* Properties of extract_fields (specification SpecExtract)                *)
(***************************************************************************)
\* C1: first match wins: when lines of the text match a field's pattern, the
\* returned value of the field is the one captured from the earliest of
\* them; a later matching line never overwrites it.
C1_FirstMatchWins ==
  epc = "returned" =>
    \A i \in 1..Len(FieldOrder) :
      MatchingLines(FieldOrder[i]) # {} =>
        ret[i] = Captured(FieldOrder[i], Min(MatchingLines(FieldOrder[i])))

\* C5 as stated: extract_fields returns one value for each of the 13 fields
\* in the fixed order, and a field holds "MISSING" exactly when no line of
\* the text matches its pattern.
C5_MissingIffNoMatch ==
  epc = "returned" =>
    /\ Len(ret) = 13
    /\ \A i \in 1..Len(FieldOrder) :
         (ret[i] = MISSING) <=> (MatchingLines(FieldOrder[i]) = {})

\* C5 amended: extract_fields returns one value for each of the 13 fields in
\* the fixed order (Branch first, Selling Price (SP) last); a field no line
\* matches holds "MISSING", and a field some line matches holds the trimmed
\* value captured from a matching line, which may itself be the text
\* "MISSING"; a text with no matching line yields 13 times "MISSING".
C5_ExtractionTotal ==
  epc = "returned" =>
    /\ Len(ret) = 13
    /\ FieldOrder[1] = "Branch" /\ FieldOrder[13] = "Selling Price (SP)"
    /\ \A i \in 1..Len(FieldOrder) :
         /\ MatchingLines(FieldOrder[i]) = {} => ret[i] = MISSING
         /\ MatchingLines(FieldOrder[i]) # {} =>
              \E n \in MatchingLines(FieldOrder[i]) :
                ret[i] = Captured(FieldOrder[i], n)
    /\ (\A f \in FieldNames : MatchingLines(f) = {}) =>
         ret = [i \in 1..13 |-> MISSING]

\* a two-line text was extracted: some fields matched, the others are MISSING
C5_Witness ==
  /\ epc = "returned"
  /\ Len(lines) = 2
  /\ MatchingLines("Branch") # {} /\ ret[1] = <<"E","a","s","t">>
  /\ MatchingLines("Item Group") # {} /\ ret[5] = <<"M","o","b","i","l","e"," ","P","h","o","n","e">>
  /\ MatchingLines("MRP") = {} /\ ret[8] = MISSING

SellingPriceLabel == <<"S","e","l","l","i","n","g"," ","P","r","i","c","e">>
SellingPriceAbbreviation == <<" ","(","S","P",")">>
PriceValues == { <<"1","0","0">>, <<"9","0">> }

\* C10: the parenthetical abbreviation of the Selling Price field is
\* optional: the one-line texts "Selling Price : v" and
\* "Selling Price (SP) : v" both set the field "Selling Price (SP)" to v.
C10_OptionalParenthetical ==
  (epc = "returned" /\ Len(lines) = 1) =>
    \A v \in PriceValues :
      lines[1] \in {SellingPriceLabel \o <<" ",":"," ">> \o v,
                    SellingPriceLabel \o SellingPriceAbbreviation \o <<" ",":"," ">> \o v}
        => ret[13] = strip(v)

(***************************************************************************)
(* Properties of handler (specification Spec)                              *)
(***************************************************************************)
\* C2: submission-failure isolation: when the append of one matched category
\* raised, the handler still attempts the append of every other matched
\* category with a sheet and the forward to every target of every matched
\* category, the failing category's own targets included.
C2_SubmissionFailureIsolated ==
  \A h \in Handlers :
    (/\ Finished(h)
     /\ \E i \in 1..Len(trace[h]) :
          IsAppend(trace[h][i]) /\ trace[h][i].result \in SheetErrors)
      => /\ pc[h] = "done"
         /\ matched[h] = SelectSeq(CategoryOrder,
                           LAMBDA c : c \in ExpectedCategories[msg[h]])
         /\ FullyDispatched(h)

\* a message matched mobile and accessories, the mobile append raised, and
\* the accessories append and the forwards of both categories were made
C2_Witness ==
  \E h \in Handlers :
    /\ pc[h] = "done"
    /\ matched[h] = <<"mobile", "accessories">>
    /\ AppendsFor(trace[h], "mobile") # <<>>
    /\ AppendsFor(trace[h], "mobile")[1].result \in SheetErrors
    /\ AppendsFor(trace[h], "accessories") # <<>>
    /\ AppendsFor(trace[h], "accessories")[1].result = "ok"
    /\ Len(SendsFor(trace[h], "mobile")) = 2
    /\ Len(SendsFor(trace[h], "accessories")) = 1

\* C3: forward-failure isolation: when send_message raised for one
\* destination, the handler still attempts the forward to every remaining
\* destination of the category and the append and forwards of every
\* remaining matched category; the error does not leave the handler.
C3_ForwardFailureIsolated ==
  \A h \in Handlers :
    /\ (\E i \in 1..Len(trace[h]) :
          IsSend(trace[h][i]) /\ trace[h][i].result \in ForwardErrors)
         => pc[h] # "raised"
    /\ (/\ Finished(h)
        /\ \E i \in 1..Len(trace[h]) :
             IsSend(trace[h][i]) /\ trace[h][i].result \in ForwardErrors)
         => /\ matched[h] = SelectSeq(CategoryOrder,
                              LAMBDA c : c \in ExpectedCategories[msg[h]])
            /\ FullyDispatched(h)

\* the first forward of the mobile category raised; the second mobile
\* forward and the accessories append and forward were made all the same
C3_Witness ==
  \E h \in Handlers :
    /\ pc[h] = "done"
    /\ matched[h] = <<"mobile", "accessories">>
    /\ Len(SendsFor(trace[h], "mobile")) = 2
    /\ SendsFor(trace[h], "mobile")[1].result \in ForwardErrors
    /\ SendsFor(trace[h], "mobile")[2].result = "ok"
    /\ Len(AppendsFor(trace[h], "accessories")) = 1
    /\ Len(SendsFor(trace[h], "accessories")) = 1

\* C4: routing is the keyword test: the handler dispatches for a category
\* iff one of its keywords occurs in the message text as a substring,
\* letter case ignored; the categories are decided one by one, the matched
\* ones are configured categories, and an empty keyword list matches nothing.
C4_RoutingIsKeywordTest ==
  \A h \in Handlers :
    /\ Range(matched[h]) \subseteq CategoryNames
    /\ Range(matched[h]) \subseteq ExpectedCategories[msg[h]]
    /\ \A i \in 1..Len(trace[h]) : trace[h][i].category \in Range(matched[h])
    /\ Finished(h) =>
         /\ Range(matched[h]) = ExpectedCategories[msg[h]]
         /\ Len(matched[h]) = Cardinality(ExpectedCategories[msg[h]])
    /\ ~KeywordMatch(<<>>, msg[h])

\* one message matched two categories through a keyword written in another
\* letter case, the other message matched none
C4_Witness ==
  \E h, g \in Handlers :
    /\ pc[h] = "done" /\ pc[g] = "done"
    /\ msg[h] = <<"B","O","A","T">>
    /\ matched[h] = <<"mobile", "accessories">>
    /\ matched[g] = <<>>

C8_AppendBeforeForward ==
  \A h \in Handlers :
    \A i, j \in 1..Len(trace[h]) :
      (/\ IsAppend(trace[h][i])
       /\ IsSend(trace[h][j])
       /\ trace[h][i].category = trace[h][j].category) => i < j

\* one handler made a failed append and then a forward for mobile, and an
\* append that succeeded and then a forward for accessories
C8_Witness ==
  \E h \in Handlers :
    /\ Len(trace[h]) >= 5
    /\ IsAppend(trace[h][1]) /\ trace[h][1].category = "mobile"
    /\ trace[h][1].result \in SheetErrors
    /\ IsSend(trace[h][2]) /\ trace[h][2].category = "mobile"
    /\ IsAppend(trace[h][4]) /\ trace[h][4].category = "accessories"
    /\ trace[h][4].result = "ok"
    /\ IsSend(trace[h][5]) /\ trace[h][5].category = "accessories"

\* The state part of C9: while two handlers
\* interleave at their awaits, the attempts made for each message are a
\* prefix of, and at the end the same as, the attempts made when the message
\* is processed alone; no step modifies CATEGORIES.
C9_IndependentState ==
  \A h \in Handlers :
    /\ IsPrefix(Attempts(trace[h]), AloneAttempts(msg[h]))
    /\ pc[h] = "done" => Attempts(trace[h]) = AloneAttempts(msg[h])
    /\ \A c \in CategoryNames : CATEGORIES[c].keywords = KeywordsOf(c)

\* C9, with the step property: C9_IndependentState holds in every state and
\* no step of any handler changes CATEGORIES.
C9_MessageIndependence ==
  [](C9_IndependentState) /\ [][CATEGORIES' = CATEGORIES]_vars

\* the handlers of two different messages are both suspended at a
\* send_message, each after an earlier forward of its own
C9_Witness ==
  /\ pc[1] = "await" /\ pc[2] = "await"
  /\ msg[1] # msg[2]
  /\ Len(SelectSeq(trace[1], IsSend)) >= 2
  /\ Len(SelectSeq(trace[2], IsSend)) >= 2

====
